---- MODULE Spec2Model ----
(***************************************************************************)
(* Spanning-tree root election of src/src/spanningtree.rs: Node, Link and  *)
(* Tree, the acceptance rule Node::receive_suggestion, the propagation     *)
(* Tree::run_calc, the driver Tree::simulate and the construction calls    *)
(* Tree::add_node / add_link.                                              *)
(***************************************************************************)
EXTENDS Integers, Sequences, FiniteSets, TLC

VARIABLES node_list, link_list, root_id, phase, last, sim

vars == <<node_list, link_list, root_id, phase, last, sim>>

(* ------------------------------ bounds -------------------------------- *)

\* most nodes a caller adds
MaxNodes == 3
\* most links a caller adds
MaxLinks == 2
\* msg_count is unbounded in the code; calls stop once a counter would pass this
MaxMsg == 2
\* the run_calc calls of one simulate call are counted up to this
MaxCalls == 4

\* node ids the callers use (isize): the ids of the run_calc doc example and a negative one
Ids == {-1, 2, 3, 4}
\* links the callers add, <<member 0, member 1, cost>>: the two links of the
\* run_calc doc example, the first one again reversed and with another cost,
\* the link closing the triangle, a self-link and a link of the negative id
LinkInputs ==
    {<<2, 4, 5>>, <<3, 2, 8>>, <<4, 2, 8>>, <<3, 4, 5>>, <<2, 2, 5>>, <<-1, 3, 8>>}
\* costs a caller passes to receive_suggestion directly
SuggestedCosts == {0, 5, 8, 13}
\* <<min_iterations, min_hops>> a caller passes to simulate
SimArgs == {<<0, 0>>, <<0, 1>>, <<1, 0>>, <<1, 1>>, <<2, 0>>, <<2, 1>>}

(* ------------------------------ Option -------------------------------- *)

None == <<>>
Some(x) == <<x>>

(* ------------------------------- Node --------------------------------- *)

\* Node::new(id, name); the name is a display label no operation reads
NewNode(id) ==
    [id |-> id, msg_count |-> 0, next_hop |-> None, root_cost |-> 0, root_id |-> id]

\* receive_suggestion with the lower-root branch keeping the old root_cost
receive_suggestion_keeps_cost(self, suggested_id, source_id, root_cost) ==
    LET counted == [self EXCEPT !.msg_count = @ + 1]
    IN  IF suggested_id < counted.root_id
        THEN [node |-> [counted EXCEPT !.next_hop = Some(source_id),
                                       !.root_id = suggested_id],
              accept |-> TRUE]
        ELSE IF suggested_id = counted.root_id /\ root_cost < counted.root_cost
        THEN [node |-> [counted EXCEPT !.root_cost = root_cost,
                                       !.next_hop = Some(source_id)],
              accept |-> TRUE]
        ELSE [node |-> counted, accept |-> FALSE]

\* receive_suggestion without the cheaper-cost branch
receive_suggestion_no_cheaper(self, suggested_id, source_id, root_cost) ==
    LET counted == [self EXCEPT !.msg_count = @ + 1]
    IN  IF suggested_id < counted.root_id
        THEN [node |-> [counted EXCEPT !.root_cost = root_cost,
                                       !.next_hop = Some(source_id),
                                       !.root_id = suggested_id],
              accept |-> TRUE]
        ELSE [node |-> counted, accept |-> FALSE]

\* receive_suggestion comparing the costs with <= in place of <
receive_suggestion_le_cost(self, suggested_id, source_id, root_cost) ==
    LET counted == [self EXCEPT !.msg_count = @ + 1]
    IN  IF suggested_id < counted.root_id
        THEN [node |-> [counted EXCEPT !.root_cost = root_cost,
                                       !.next_hop = Some(source_id),
                                       !.root_id = suggested_id],
              accept |-> TRUE]
        ELSE IF suggested_id = counted.root_id /\ root_cost <= counted.root_cost
        THEN [node |-> [counted EXCEPT !.root_cost = root_cost,
                                       !.next_hop = Some(source_id)],
              accept |-> TRUE]
        ELSE [node |-> counted, accept |-> FALSE]

\* receive_suggestion accepting an equal root at any cost
receive_suggestion_le_root(self, suggested_id, source_id, root_cost) ==
    LET counted == [self EXCEPT !.msg_count = @ + 1]
    IN  IF suggested_id <= counted.root_id
        THEN [node |-> [counted EXCEPT !.root_cost = root_cost,
                                       !.next_hop = Some(source_id),
                                       !.root_id = suggested_id],
              accept |-> TRUE]
        ELSE [node |-> counted, accept |-> FALSE]

\* receive_suggestion counting only the suggestions it accepts
receive_suggestion_counts_accepted(self, suggested_id, source_id, root_cost) ==
    IF suggested_id < self.root_id
    THEN [node |-> [self EXCEPT !.msg_count = @ + 1,
                                !.root_cost = root_cost,
                                !.next_hop = Some(source_id),
                                !.root_id = suggested_id],
          accept |-> TRUE]
    ELSE IF suggested_id = self.root_id /\ root_cost < self.root_cost
    THEN [node |-> [self EXCEPT !.msg_count = @ + 1,
                                !.root_cost = root_cost,
                                !.next_hop = Some(source_id)],
          accept |-> TRUE]
    ELSE [node |-> self, accept |-> FALSE]

\* Node::receive_suggestion: the node afterwards and the returned bool
receive_suggestion(self, suggested_id, source_id, root_cost) ==
    LET counted == [self EXCEPT !.msg_count = @ + 1]
    IN  IF suggested_id < counted.root_id
        THEN [node |-> [counted EXCEPT !.root_cost = root_cost,
                                       !.next_hop = Some(source_id),
                                       !.root_id = suggested_id],
              accept |-> TRUE]
        ELSE IF suggested_id = counted.root_id /\ root_cost < counted.root_cost
        THEN [node |-> [counted EXCEPT !.root_cost = root_cost,
                                       !.next_hop = Some(source_id)],
              accept |-> TRUE]
        ELSE [node |-> counted, accept |-> FALSE]

(* ------------------------------- Link --------------------------------- *)

\* Link::new(members, cost)
NewLink(a, b, cost) == [members |-> <<a, b>>, cost |-> cost]

(* ------------------------------- Tree --------------------------------- *)

\* node_list.iter().position(|n| n.id == id): the first index, 0 when there is none
Position(nl, id) ==
    IF \E i \in 1..Len(nl) : nl[i].id = id
    THEN CHOOSE i \in 1..Len(nl) :
            nl[i].id = id /\ \A j \in 1..(i - 1) : nl[j].id # id
    ELSE 0

\* find_link matching only links stored as (a, b)
find_link_one_way(ll, a, b) ==
    LET hit(k) == ll[k].members[1] = a /\ ll[k].members[2] = b
    IN  IF \E k \in 1..Len(ll) : hit(k)
        THEN Some(ll[CHOOSE k \in 1..Len(ll) :
                        hit(k) /\ \A j \in 1..(k - 1) : ~hit(j)])
        ELSE None

\* Tree::find_link: the first link joining a and b in either orientation
find_link(ll, a, b) ==
    LET hit(k) == \/ ll[k].members[1] = a /\ ll[k].members[2] = b
                  \/ ll[k].members[1] = b /\ ll[k].members[2] = a
    IN  IF \E k \in 1..Len(ll) : hit(k)
        THEN Some(ll[CHOOSE k \in 1..Len(ll) :
                        hit(k) /\ \A j \in 1..(k - 1) : ~hit(j)])
        ELSE None

\* OtherEnd looking only at the link's first member
OtherEnd_first_member(link, node_id) ==
    IF node_id = link.members[1] THEN link.members[2] ELSE -1

\* the id run_calc looks up for a link: the other member, or -1 for a link
\* that does not touch node_id
OtherEnd(link, node_id) ==
    IF node_id = link.members[1] THEN link.members[2]
    ELSE IF node_id = link.members[2] THEN link.members[1]
    ELSE -1

\* the loop of run_calc over link_list from link k on: the nodes afterwards
\* and recursive_vec
\* In the three operators below a let binding of the code is written
\* CHOOSE result \in {body : x \in {value}} : TRUE, which is the body with x
\* standing for the value, the value being computed once.

RECURSIVE Sweep(_, _, _, _, _, _, _, _)
Sweep(nl, ll, k, node_id, snap_id, snap_cost, recursive, rvec) ==
    IF k > Len(ll) THEN [nodes |-> nl, recursive_vec |-> rvec]
    ELSE
        LET link == ll[k]
            index == Position(nl, OtherEnd(link, node_id))
        IN  IF index = 0
            THEN Sweep(nl, ll, k + 1, node_id, snap_id, snap_cost, recursive, rvec)
            ELSE
                CHOOSE result \in
                    {Sweep(nodes, ll, k + 1, node_id, snap_id, snap_cost,
                           recursive,
                           IF r.accept /\ recursive
                           THEN Append(rvec, r.node.id) ELSE rvec) :
                        r \in {receive_suggestion(nl[index], snap_id, node_id,
                                                  snap_cost + link.cost)},
                        nodes \in {[nl EXCEPT ![index] =
                                      receive_suggestion(nl[index], snap_id,
                                          node_id, snap_cost + link.cost).node]}}
                    : TRUE

\* Tree::run_calc: the nodes afterwards and the returned bool
RECURSIVE run_calc(_, _, _, _)
RECURSIVE Cascade(_, _, _, _)

\* run_calc going on with the defaults of a new node when node_id is not stored
run_calc_defaults(nl, ll, node_id, recursive) ==
    LET at == Position(nl, node_id)
        swept == Sweep(nl, ll, 1, node_id,
                       IF at = 0 THEN node_id ELSE nl[at].root_id,
                       IF at = 0 THEN 0 ELSE nl[at].root_cost, recursive, <<>>)
    IN  [nodes |-> Cascade(swept.nodes, ll, swept.recursive_vec, recursive),
         ret |-> at # 0]

run_calc(nl, ll, node_id, recursive) ==
    LET at == Position(nl, node_id)
    IN  IF at = 0 THEN [nodes |-> nl, ret |-> FALSE]
        ELSE
            CHOOSE result \in
                {[nodes |-> Cascade(swept.nodes, ll, swept.recursive_vec,
                                    recursive),
                  ret |-> TRUE] :
                    swept \in {Sweep(nl, ll, 1, node_id, nl[at].root_id,
                                     nl[at].root_cost, recursive, <<>>)}}
                : TRUE

\* Cascade leaving the second loop of run_calc out
Cascade_none(nl, ll, rvec, recursive) == nl

\* the second loop of run_calc: run_calc on each id of recursive_vec in turn
Cascade(nl, ll, rvec, recursive) ==
    IF rvec = <<>> THEN nl
    ELSE CHOOSE result \in
             {Cascade(nodes, ll, Tail(rvec), recursive) :
                 nodes \in {run_calc(nl, ll, Head(rvec), recursive).nodes}}
             : TRUE

(* ------------------------------ actions ------------------------------- *)

\* last: the latest call of the node or tree interface that the caller made
\* after building: its name, the node id it was made on, its other
\* arguments, what it returned, and that node as it was before the call
NoCall == [op |-> "none", node |-> 0, args |-> <<>>, ret |-> FALSE, before |-> None]

\* sim: where a call of simulate stands: pc is "idle" (none was made), "loop"
\* (inside its while loop), "returned" or "panicked"; i is the number of
\* iterations of the for loop done in the current batch; calls is the number
\* of run_calc calls the loop made, counted up to MaxCalls; picked_min tells
\* whether one of them was on the stored node of the lowest id; then the
\* three arguments of the call
NoSim == [pc |-> "idle", i |-> 0, calls |-> 0, picked_min |-> FALSE,
          min_iterations |-> 0, min_hops |-> 0, recursive |-> FALSE]

\* Tree::new()
Init ==
    /\ node_list = <<>>
    /\ link_list = <<>>
    /\ root_id = None
    /\ phase = "build"
    /\ last = NoCall
    /\ sim = NoSim

\* add_node setting root_id only while it is none
add_node_first_root(id) ==
    /\ phase = "build"
    /\ Len(node_list) < MaxNodes
    /\ IF \E i \in 1..Len(node_list) : node_list[i].id = id
       THEN UNCHANGED <<node_list, root_id>>
       ELSE /\ root_id' = IF root_id = None THEN Some(id) ELSE root_id
            /\ node_list' = Append(node_list, NewNode(id))
    /\ UNCHANGED <<link_list, phase, last, sim>>

\* Tree::add_node(Node::new(id, _))
add_node(id) ==
    /\ phase = "build"
    /\ Len(node_list) < MaxNodes
    /\ IF \E i \in 1..Len(node_list) : node_list[i].id = id
       THEN UNCHANGED <<node_list, root_id>>
       ELSE /\ root_id' = IF root_id = None \/ (root_id # None /\ id < root_id[1])
                          THEN Some(id) ELSE root_id
            /\ node_list' = Append(node_list, NewNode(id))
    /\ UNCHANGED <<link_list, phase, last, sim>>

\* Tree::add_link(Link::new((a, b), cost))
add_link(a, b, cost) ==
    /\ phase = "build"
    /\ Len(link_list) < MaxLinks
    /\ link_list' = IF find_link(link_list, a, b) = None
                    THEN Append(link_list, NewLink(a, b, cost))
                    ELSE link_list
    /\ UNCHANGED <<node_list, root_id, phase, last, sim>>

\* tree.get_node(id).unwrap().receive_suggestion(suggested_id, source_id, root_cost)
ReceiveSuggestion(id, suggested_id, source_id, root_cost) ==
    LET index == Position(node_list, id)
    IN  /\ index # 0
        /\ node_list[index].msg_count < MaxMsg
        /\ LET r == receive_suggestion(node_list[index], suggested_id,
                                       source_id, root_cost)
           IN  /\ node_list' = [node_list EXCEPT ![index] = r.node]
               /\ last' = [op |-> "receive_suggestion", node |-> id,
                           args |-> <<suggested_id, source_id, root_cost>>,
                           ret |-> r.accept, before |-> Some(node_list[index])]
        /\ phase' = "run"
        /\ UNCHANGED <<link_list, root_id, sim>>

\* tree.run_calc(node_id, recursive)
RunCalc(node_id, recursive) ==
    LET r == run_calc(node_list, link_list, node_id, recursive)
    IN  /\ \A i \in 1..Len(r.nodes) : r.nodes[i].msg_count <= MaxMsg
        /\ node_list' = r.nodes
        /\ last' = [op |-> "run_calc", node |-> node_id,
                    args |-> <<recursive>>, ret |-> r.ret,
                    before |-> LET at == Position(node_list, node_id)
                               IN  IF at = 0 THEN None ELSE Some(node_list[at])]
        /\ phase' = "run"
        /\ UNCHANGED <<link_list, root_id, sim>>

Next ==
    \/ \E id \in Ids : add_node(id)
    \/ \E l \in LinkInputs : add_link(l[1], l[2], l[3])
    \/ \E id \in Ids, recursive \in BOOLEAN : RunCalc(id, recursive)

Spec == Init /\ [][Next]_vars

(* ------------------- one node and its suggestions --------------------- *)

\* Tree::new(), then add_node(Node::new(id, _)) for one id
InitNode ==
    \E id \in Ids :
        /\ node_list = <<NewNode(id)>>
        /\ link_list = <<>>
        /\ root_id = Some(id)
        /\ phase = "run"
        /\ last = NoCall
        /\ sim = NoSim

NextNode ==
    \E id \in Ids, s \in Ids, src \in Ids, c \in SuggestedCosts :
        ReceiveSuggestion(id, s, src, c)

SpecNode == InitNode /\ [][NextNode]_vars

(* ------------------------------ simulate ------------------------------ *)

\* the lowest id of the stored nodes (there is one)
MinId(nl) == CHOOSE m \in {nl[i].id : i \in 1..Len(nl)} :
                \A i \in 1..Len(nl) : m <= nl[i].id

\* LoopAgain comparing msg_count and min_hops with < in place of <=
LoopAgain_lt(nl, min_hops) ==
    (\E i \in 1..Len(nl) : nl[i].msg_count < min_hops) /\ min_hops # 0

\* the condition of the while loop of simulate
LoopAgain(nl, min_hops) ==
    (\E i \in 1..Len(nl) : nl[i].msg_count <= min_hops) /\ min_hops # 0

\* AfterCall evaluating the condition of the while loop after every call
AfterCall_each_call(s, nl, nodeid) ==
    LET counted == [s EXCEPT !.i = @ + 1,
                             !.calls = IF @ < MaxCalls THEN @ + 1 ELSE @,
                             !.picked_min = @ \/ nodeid = MinId(nl)]
    IN  IF LoopAgain(nl, s.min_hops)
        THEN [counted EXCEPT !.i = IF @ >= s.min_iterations THEN 0 ELSE @]
        ELSE [counted EXCEPT !.pc = "returned"]

\* simulate after its call run_calc(nodeid, recursive) left the nodes nl: the
\* for loop goes on, or the batch is complete and the while loop goes on or
\* ends
AfterCall(s, nl, nodeid) ==
    LET counted == [s EXCEPT !.i = @ + 1,
                             !.calls = IF @ < MaxCalls THEN @ + 1 ELSE @,
                             !.picked_min = @ \/ nodeid = MinId(nl)]
    IN  IF counted.i < s.min_iterations THEN counted
        ELSE IF LoopAgain(nl, s.min_hops) THEN [counted EXCEPT !.i = 0]
        ELSE [counted EXCEPT !.pc = "returned"]

\* the nodes with every msg_count above MaxMsg held at MaxMsg: simulate reads
\* a msg_count only to compare it with min_hops, which is below MaxMsg
Clamp(nl) ==
    [i \in 1..Len(nl) |->
        [nl[i] EXCEPT !.msg_count = IF @ > MaxMsg THEN MaxMsg ELSE @]]

\* tree.simulate(min_iterations, min_hops, recursive) is called and enters
\* its while loop
Simulate(min_iterations, min_hops, recursive) ==
    /\ sim.pc = "idle"
    /\ sim' = [pc |-> "loop", i |-> 0, calls |-> 0, picked_min |-> FALSE,
               min_iterations |-> min_iterations, min_hops |-> min_hops,
               recursive |-> recursive]
    /\ phase' = "run"
    /\ UNCHANGED <<node_list, link_list, root_id, last>>

\* one iteration of the for loop: gen_range picked the index randi
SimStep(randi) ==
    /\ sim.pc = "loop"
    /\ sim.i < sim.min_iterations
    /\ randi \in 1..Len(node_list)
    /\ \E r \in {run_calc(node_list, link_list, node_list[randi].id,
                            sim.recursive)} :
         \E nodes \in {Clamp(r.nodes)} :
           /\ node_list' = nodes
           /\ last' = [op |-> "run_calc", node |-> node_list[randi].id,
                       args |-> <<sim.recursive>>, ret |-> r.ret,
                       before |-> Some(node_list[randi])]
           /\ sim' = AfterCall(sim, nodes, node_list[randi].id)
    /\ UNCHANGED <<link_list, root_id, phase>>

\* one iteration of the for loop on an empty node_list: gen_range(0, 0) panics
SimPanic ==
    /\ sim.pc = "loop"
    /\ sim.i < sim.min_iterations
    /\ Len(node_list) = 0
    /\ sim' = [sim EXCEPT !.pc = "panicked"]
    /\ UNCHANGED <<node_list, link_list, root_id, phase, last>>

\* a batch of no iterations (min_iterations = 0): only the condition of the
\* while loop is evaluated
SimEmptyBatch ==
    /\ sim.pc = "loop"
    /\ sim.min_iterations = 0
    /\ sim' = IF LoopAgain(node_list, sim.min_hops) THEN sim
              ELSE [sim EXCEPT !.pc = "returned"]
    /\ UNCHANGED <<node_list, link_list, root_id, phase, last>>

NextSim ==
    \/ \E id \in Ids : add_node(id)
    \/ \E l \in LinkInputs : add_link(l[1], l[2], l[3])
    \/ \E a \in SimArgs, recursive \in BOOLEAN : Simulate(a[1], a[2], recursive)
    \/ \E randi \in 1..MaxNodes : SimStep(randi)
    \/ SimPanic
    \/ SimEmptyBatch

SpecSim == Init /\ [][NextSim]_vars

\* fair selection: gen_range keeps picking every index of a non-empty
\* node_list for as long as the loop of simulate runs
SimFairness == \A randi \in 1..MaxNodes : WF_vars(SimStep(randi))

SpecSimFair == Init /\ [][NextSim]_vars /\ SimFairness

(* ------------------- run_calc again and again ------------------------- *)

\* node ids and links of the topologies on which run_calc is repeated
ConvIds == Ids \cup {-2}
ConvLinks == LinkInputs \cup {<<-2, 3, 5>>}

\* tree.run_calc(node_list[randi].id, recursive) by a caller that goes on
\* selecting nodes for ever; a msg_count is held at MaxMsg (run_calc and
\* receive_suggestion never read it)
RunCalcOn(randi, recursive) ==
    /\ sim.pc = "idle"
    /\ randi \in 1..Len(node_list)
    /\ \E r \in {run_calc(node_list, link_list, node_list[randi].id,
                            recursive)} :
           /\ node_list' = Clamp(r.nodes)
           /\ last' = [op |-> "run_calc", node |-> node_list[randi].id,
                       args |-> <<recursive>>, ret |-> r.ret,
                       before |-> Some(node_list[randi])]
    /\ phase' = "run"
    /\ UNCHANGED <<link_list, root_id, sim>>

NextConv ==
    \/ \E id \in ConvIds : add_node(id)
    \/ \E l \in ConvLinks : add_link(l[1], l[2], l[3])
    \/ \E randi \in 1..MaxNodes, recursive \in BOOLEAN :
          RunCalcOn(randi, recursive)

\* fair selection: every stored node is selected again and again
ConvFairness ==
    \A randi \in 1..MaxNodes :
        WF_vars(\E recursive \in BOOLEAN : RunCalcOn(randi, recursive))

SpecConv == Init /\ [][NextConv]_vars /\ ConvFairness

(* ---------------------- building, call by call ------------------------ *)

\* AddNode pushing the node whether or not its id is stored
AddNode_always_push(id) ==
    /\ Len(node_list) < MaxNodes
    /\ root_id' = IF root_id = None \/ (root_id # None /\ id < root_id[1])
                  THEN Some(id) ELSE root_id
    /\ node_list' = Append(node_list, NewNode(id))
    /\ last' = [op |-> "add_node", node |-> id, args |-> <<>>, ret |-> FALSE,
                before |-> None]
    /\ UNCHANGED <<link_list, phase, sim>>

\* tree.add_node(Node::new(id, _)), the call recorded in last
AddNode(id) ==
    /\ Len(node_list) < MaxNodes
    /\ IF \E i \in 1..Len(node_list) : node_list[i].id = id
       THEN UNCHANGED <<node_list, root_id>>
       ELSE /\ root_id' = IF root_id = None \/ (root_id # None /\ id < root_id[1])
                          THEN Some(id) ELSE root_id
            /\ node_list' = Append(node_list, NewNode(id))
    /\ last' = [op |-> "add_node", node |-> id, args |-> <<>>, ret |-> FALSE,
                before |-> None]
    /\ UNCHANGED <<link_list, phase, sim>>

\* tree.add_link(Link::new((a, b), cost)), the call recorded in last
AddLink(a, b, cost) ==
    /\ Len(link_list) < MaxLinks
    /\ link_list' = IF find_link(link_list, a, b) = None
                    THEN Append(link_list, NewLink(a, b, cost))
                    ELSE link_list
    /\ last' = [op |-> "add_link", node |-> 0, args |-> <<a, b, cost>>,
                ret |-> FALSE, before |-> None]
    /\ UNCHANGED <<node_list, root_id, phase, sim>>

NextBuild ==
    \/ \E id \in Ids : AddNode(id)
    \/ \E l \in LinkInputs : AddLink(l[1], l[2], l[3])

SpecBuild == Init /\ [][NextBuild]_vars

(* ------------- building and run_calc in any order --------------------- *)

NextGrow ==
    \/ \E id \in Ids : AddNode(id)
    \/ \E l \in LinkInputs : AddLink(l[1], l[2], l[3])
    \/ \E randi \in 1..MaxNodes, recursive \in BOOLEAN :
          RunCalcOn(randi, recursive)

SpecGrow == Init /\ [][NextGrow]_vars

(* ------------------- find_link on any link list ----------------------- *)

\* the links of the link lists find_link is tried on: both orientations of a
\* pair, a pair twice with different costs, a self-link
AnyLinks == {<<2, 4, 5>>, <<4, 2, 8>>, <<2, 4, 8>>, <<3, 2, 8>>, <<2, 2, 5>>}

RECURSIVE LinkLists(_)
\* the link lists of up to n links of AnyLinks
LinkLists(n) ==
    IF n = 0 THEN {<<>>}
    ELSE LinkLists(n - 1) \cup
         {Append(ll, NewLink(l[1], l[2], l[3])) :
             ll \in LinkLists(n - 1), l \in AnyLinks}

\* a tree whose link_list was filled with any links
InitLinks ==
    /\ node_list = <<>>
    /\ link_list \in LinkLists(MaxLinks)
    /\ root_id = None
    /\ phase = "build"
    /\ last = NoCall
    /\ sim = NoSim

\* tree.find_link(a, b); ret is the Option it returned
FindLink(a, b) ==
    /\ last' = [op |-> "find_link", node |-> 0, args |-> <<a, b>>,
                ret |-> find_link(link_list, a, b), before |-> None]
    /\ UNCHANGED <<node_list, link_list, root_id, phase, sim>>

NextLinks == \E a \in Ids, b \in Ids : FindLink(a, b)

SpecLinks == InitLinks /\ [][NextLinks]_vars

(* ------------------------- reading the state -------------------------- *)

\* the stored node with this id (the caller makes sure there is one)
NodeOf(id) == node_list[Position(node_list, id)]

\* a node's belief triple
Belief(n) == <<n.root_id, n.root_cost, n.next_hop>>

\* the latest call was receive_suggestion
LastIsSuggestion == last.op = "receive_suggestion"
suggested_root == last.args[1]
source_id == last.args[2]
suggested_cost == last.args[3]
\* the receiving node before and after the latest receive_suggestion
Before == last.before[1]
After == NodeOf(last.node)

\* the latest call was run_calc
LastIsRunCalc == last.op = "run_calc"
\* this step is a call run_calc(n, recursive)
RunCalcStep(n, recursive) ==
    last'.op = "run_calc" /\ last'.node = n /\ last'.args = <<recursive>>
\* the link has n as a member
Incident(link, n) == link.members[1] = n \/ link.members[2] = n
\* the member of a link of n that is not n (n itself for a self-link)
Neighbour(link, n) ==
    IF link.members[1] = n THEN link.members[2] ELSE link.members[1]
\* how many suggestions the loop of run_calc(n, _) makes on the node with id m
SweepCalls(n, m) ==
    IF Position(node_list, n) = 0 THEN 0
    ELSE Cardinality({k \in 1..Len(link_list) : OtherEnd(link_list[k], n) = m})
\* the ids of the stored nodes in the order they were added
StoredIds == [i \in 1..Len(node_list) |-> node_list[i].id]
\* the ids of the nodes of nl
IdSet(nl) == {nl[i].id : i \in 1..Len(nl)}
\* the ids of nl that n steps over links of ll reach from the ids in S
RECURSIVE Reach(_, _, _, _)
Reach(nl, ll, S, n) ==
    IF n = 0 THEN S
    ELSE Reach(nl, ll,
               S \cup {b \in IdSet(nl) :
                          \E a \in S : find_link(ll, a, b) # None},
               n - 1)
\* there are nodes, and links between them join them all
Connected(nl, ll) ==
    Len(nl) > 0 /\ Reach(nl, ll, {nl[1].id}, Len(nl)) = IdSet(nl)
\* the lower of two path costs, None standing for no path
Cheaper(c, d) ==
    IF c = None THEN d
    ELSE IF d = None THEN c
    ELSE IF d[1] < c[1] THEN d ELSE c
\* the cost in D of id v, or of the path over the links k..Len(ll) that is
\* cheapest of those that end with one link into v
RECURSIVE OverLinks(_, _, _, _)
OverLinks(ll, D, v, k) ==
    IF k > Len(ll) THEN D[v]
    ELSE LET u == Neighbour(ll[k], v)
             rest == OverLinks(ll, D, v, k + 1)
         IN  IF Incident(ll[k], v) /\ u \in DOMAIN D /\ D[u] # None
             THEN Cheaper(rest, Some(D[u][1] + ll[k].cost))
             ELSE rest
\* the costs D after n more rounds of following one more link
RECURSIVE Relax(_, _, _)
Relax(ll, D, n) ==
    IF n = 0 THEN D
    ELSE Relax(ll, [v \in DOMAIN D |-> OverLinks(ll, D, v, 1)], n - 1)
\* for each id of nl the lowest total link cost of a path to the node of the
\* lowest id
PathCost(nl, ll) ==
    Relax(ll, [v \in IdSet(nl) |-> IF v = MinId(nl) THEN Some(0) ELSE None],
          Len(nl))
\* the stored node with this id is a member of no link
Isolated(id) == \A k \in 1..Len(link_list) : ~Incident(link_list[k], id)

(* ---------------------- receive_suggestion (C1-C5) -------------------- *)

\* C1: a suggestion whose root is strictly lower than the node's root_id is
\* accepted whatever the costs are: the node ends with root_id = the suggested
\* root, root_cost = the suggested cost, next_hop = the source, and the call
\* returns true.
C1_LowerRootAccepted ==
    (LastIsSuggestion /\ suggested_root < Before.root_id) =>
        /\ After.root_id = suggested_root
        /\ After.root_cost = suggested_cost
        /\ After.next_hop = Some(source_id)
        /\ last.ret = TRUE

\* a lower root was suggested at a higher cost than the node had
C1_Witness ==
    /\ LastIsSuggestion
    /\ suggested_root < Before.root_id
    /\ suggested_cost > Before.root_cost
    /\ last.ret = TRUE

\* C2: a suggestion of the node's own root_id at a strictly lower cost is
\* accepted: root_cost becomes the suggested cost, next_hop the source,
\* root_id stays, and the call returns true.
C2_CheaperCostAccepted ==
    (LastIsSuggestion /\ suggested_root = Before.root_id
                      /\ suggested_cost < Before.root_cost) =>
        /\ After.root_cost = suggested_cost
        /\ After.next_hop = Some(source_id)
        /\ After.root_id = Before.root_id
        /\ last.ret = TRUE

\* the same root was suggested at a lower cost by another source
C2_Witness ==
    /\ LastIsSuggestion
    /\ suggested_root = Before.root_id
    /\ suggested_cost < Before.root_cost
    /\ Before.next_hop # Some(source_id)
    /\ After.next_hop = Some(source_id)

\* C3: receive_suggestion returns true exactly when the lower-root or the
\* cheaper-cost branch updated the belief triple; otherwise (a higher root, or
\* the same root at an equal or higher cost) it returns false and root_id,
\* root_cost and next_hop are unchanged.
C3_TrueIffUpdated ==
    LastIsSuggestion =>
        LET lower == suggested_root < Before.root_id
            cheaper == /\ suggested_root = Before.root_id
                       /\ suggested_cost < Before.root_cost
        IN  /\ last.ret = (lower \/ cheaper)
            /\ last.ret => Belief(After) # Belief(Before)
            /\ ~last.ret => Belief(After) = Belief(Before)

\* the node's own root was suggested at the node's own cost by another source,
\* and rejected
C3_Witness ==
    /\ LastIsSuggestion
    /\ suggested_root = Before.root_id
    /\ suggested_cost = Before.root_cost
    /\ Before.next_hop # None
    /\ Before.next_hop # Some(source_id)
    /\ last.ret = FALSE

\* C5: after an accepted call, the same call made again at once returns
\* false and leaves root_id, root_cost and next_hop as they are, while
\* msg_count grows by 1.
C5_RepeatRejected ==
    [][ (/\ LastIsSuggestion /\ last.ret = TRUE
         /\ last'.op = "receive_suggestion"
         /\ last'.node = last.node
         /\ last'.args = last.args)
        => (/\ last'.ret = FALSE
            /\ Belief(NodeOf(last.node)') = Belief(NodeOf(last.node))
            /\ NodeOf(last.node)'.msg_count = NodeOf(last.node).msg_count + 1) ]_vars

\* the first call on a node was accepted and the second, the same again, was
\* rejected: the node holds exactly what the call suggested
C5_Witness ==
    /\ LastIsSuggestion
    /\ last.ret = FALSE
    /\ After.msg_count = 2
    /\ Before.msg_count = 1
    /\ Belief(Before) = <<suggested_root, suggested_cost, Some(source_id)>>
    /\ Belief(After) = Belief(Before)

\* C4: every receive_suggestion call adds exactly 1 to the receiver's
\* msg_count, accepted or not, and nothing ever lowers a msg_count: over
\* every step no stored node's msg_count decreases, and a run_calc(n, false)
\* adds to each node exactly the number of suggestions it made on it.
C4_MsgCountCounts ==
    [][ /\ \A i \in 1..Len(node_list) :
              /\ node_list'[i].id = node_list[i].id
              /\ node_list'[i].msg_count >= node_list[i].msg_count
        /\ \A n \in Ids : RunCalcStep(n, FALSE) =>
              \A i \in 1..Len(node_list) :
                  node_list'[i].msg_count =
                      node_list[i].msg_count + SweepCalls(n, node_list[i].id)
        /\ \A n \in Ids : RunCalcStep(n, TRUE) =>
              \A i \in 1..Len(node_list) :
                  node_list'[i].msg_count >=
                      node_list[i].msg_count + SweepCalls(n, node_list[i].id) ]_vars

\* a node that never accepted anything has counted two suggestions
C4_Witness ==
    /\ LastIsRunCalc
    /\ \E i \in 1..Len(node_list) :
          /\ node_list[i].msg_count = 2
          /\ node_list[i].next_hop = None
          /\ node_list[i].root_id = node_list[i].id

(* --------------------------- run_calc (C6-C10) ------------------------ *)

\* C6: run_calc on an id that no stored node has returns false and changes
\* no node and no link; on a stored id it returns true, links or not.
C6_AbsentNodeNoOp ==
    [][ \A n \in Ids, recursive \in BOOLEAN : RunCalcStep(n, recursive) =>
            IF Position(node_list, n) = 0
            THEN /\ last'.ret = FALSE
                 /\ node_list' = node_list
                 /\ link_list' = link_list
                 /\ root_id' = root_id
            ELSE last'.ret = TRUE ]_vars

\* run_calc returned false for an id that a link names and whose neighbour
\* over that link is stored
C6_Witness ==
    /\ LastIsRunCalc
    /\ last.ret = FALSE
    /\ \E k \in 1..Len(link_list) :
          /\ Incident(link_list[k], last.node)
          /\ Position(node_list, Neighbour(link_list[k], last.node)) # 0

\* C7: run_calc(n, false) reads (r, c) = n's (root_id, root_cost) first and
\* then, for every link of n whose other end m is stored, calls
\* receive_suggestion(r, n, c + link.cost) on m exactly once: m ends as that
\* one call leaves it (so a neighbour whose root_id was above r ends with
\* root_id = r, root_cost = c + link.cost, next_hop = n).
C7_OneSuggestionPerNeighbour ==
    [][ \A n \in Ids : (RunCalcStep(n, FALSE) /\ Position(node_list, n) # 0) =>
            \A k \in 1..Len(link_list) :
                LET link == link_list[k]
                    i == Position(node_list, Neighbour(link, n))
                IN  (Incident(link, n) /\ i # 0) =>
                        node_list'[i] =
                            receive_suggestion(node_list[i], NodeOf(n).root_id, n,
                                               NodeOf(n).root_cost + link.cost).node ]_vars

\* C8: run_calc(n, false) touches only nodes linked to n: every other stored
\* node that shares no link with n keeps all its fields, msg_count included.
C8_OnlyNeighboursTouched ==
    [][ \A n \in Ids : RunCalcStep(n, FALSE) =>
            \A i \in 1..Len(node_list) :
                (/\ node_list[i].id # n
                 /\ find_link(link_list, node_list[i].id, n) = None)
                => node_list'[i] = node_list[i] ]_vars

\* C9: when the self-link (n, n) is the only link of n, run_calc(n, _)
\* leaves n's msg_count and belief triple as they are.
C9_SelfLinkFiltered ==
    [][ \A n \in Ids, recursive \in BOOLEAN :
            (/\ RunCalcStep(n, recursive)
             /\ Position(node_list, n) # 0
             /\ \E k \in 1..Len(link_list) : link_list[k].members = <<n, n>>
             /\ \A k \in 1..Len(link_list) :
                   Incident(link_list[k], n) => link_list[k].members = <<n, n>>)
            => NodeOf(n)' = NodeOf(n) ]_vars

\* the topology of the run_calc doc example, as built
DocTopology ==
    /\ StoredIds = <<4, 2, 3>>
    /\ link_list = <<NewLink(2, 4, 5), NewLink(3, 2, 8)>>
\* the doc example's topology with every node as new
DocFresh ==
    DocTopology /\ \A i \in 1..Len(node_list) : node_list[i] = NewNode(node_list[i].id)

\* C10 as claimed: on the fresh doc topology run_calc(2, false) leaves node 4
\* with root_id 2, root_cost 5, next_hop 2 and node 3 as new (root_id 3,
\* root_cost 0, no next_hop).
C10_Node3Untouched ==
    [][ (DocFresh /\ RunCalcStep(2, FALSE)) =>
            /\ Belief(NodeOf(4)') = <<2, 5, Some(2)>>
            /\ Belief(NodeOf(3)') = <<3, 0, None>> ]_vars

\* C10 as amended: on the fresh doc topology run_calc(2, false) leaves node 4
\* with root_id 2, root_cost 5, next_hop 2 and node 3, the neighbour of 2 over
\* the link (3,2), with root_id 2, root_cost 8, next_hop 2.
C10_BothNeighboursAdopt ==
    [][ (DocFresh /\ RunCalcStep(2, FALSE)) =>
            /\ Belief(NodeOf(4)') = <<2, 5, Some(2)>>
            /\ Belief(NodeOf(3)') = <<2, 8, Some(2)>> ]_vars

\* run_calc(2, false) was the first call to deliver anything on the doc topology
C10_Witness ==
    /\ DocTopology
    /\ LastIsRunCalc /\ last.node = 2 /\ last.args = <<FALSE>>
    /\ NodeOf(2) = NewNode(2)
    /\ NodeOf(4).msg_count = 1
    /\ NodeOf(3).msg_count = 1

(* ------------------------ node invariant (C19) ------------------------ *)

\* C19: a node that received nothing yet is as Node::new made it (root_id =
\* id, root_cost = 0, no next_hop, msg_count = 0), and whatever suggestions a
\* node received, while its root_id is its own id its root_cost is 0 and it
\* has no next_hop.
C19_OwnRootMeansNew ==
    \A i \in 1..Len(node_list) :
        LET n == node_list[i]
        IN  /\ n.msg_count = 0 =>
                  n = [id |-> n.id, msg_count |-> 0, next_hop |-> None,
                       root_cost |-> 0, root_id |-> n.id]
            /\ n.root_id = n.id => (n.root_cost = 0 /\ n.next_hop = None)

\* a node that still is its own root was suggested its own id at cost 0
C19_Witness ==
    /\ LastIsSuggestion
    /\ suggested_root = After.id
    /\ suggested_cost = 0
    /\ After.root_id = After.id
    /\ After.msg_count = 2

(* ------------------------- add_link (C20) ----------------------------- *)

\* the links of ll that join a and b, in either orientation
Joining(ll, a, b) == {k \in 1..Len(ll) : {ll[k].members[1], ll[k].members[2]} = {a, b}}

\* C20: the link list never holds two links of one unordered pair, and
\* add_link of a pair that is stored leaves the list as it is (the stored
\* cost and orientation too), while add_link of a new pair appends the link.
C20_OneLinkPerPair ==
    [][ /\ \A a \in Ids, b \in Ids : Cardinality(Joining(link_list', a, b)) <= 1
        /\ last'.op = "add_link" =>
              LET a == last'.args[1]
                  b == last'.args[2]
              IN  IF Joining(link_list, a, b) # {}
                  THEN link_list' = link_list
                  ELSE link_list' = Append(link_list, NewLink(a, b, last'.args[3])) ]_vars

\* add_link was called for a pair that is stored the other way round and with
\* another cost
C20_Witness ==
    /\ last.op = "add_link"
    /\ \E k \in Joining(link_list, last.args[1], last.args[2]) :
          /\ link_list[k].members = <<last.args[2], last.args[1]>>
          /\ link_list[k].members # <<last.args[1], last.args[2]>>
          /\ link_list[k].cost # last.args[3]

(* ------------------------- claims on simulate ------------------------- *)

\* C11: when simulate was called with min_hops > 0 and has returned, the
\* msg_count of every stored node is strictly greater than min_hops.
C11_ReturnMeansEnoughMessages ==
    (sim.pc = "returned" /\ sim.min_hops > 0)
        => \A i \in 1..Len(node_list) : node_list[i].msg_count > sim.min_hops

\* simulate with min_hops > 0 returned on a topology of two or more nodes
C11_Witness ==
    /\ sim.pc = "returned"
    /\ sim.min_hops > 0
    /\ sim.calls > 0
    /\ Len(node_list) >= 2

\* C12: every call simulate makes is a top-level run_calc on a stored node
\* with the recursive flag of the call; on a non-empty topology, simulate with
\* min_hops = 0 returns after exactly min_iterations such calls whatever the
\* msg_count of the nodes, and simulate with min_hops > 0 returns after a
\* positive multiple of min_iterations of them (counted below MaxCalls).
C12_WholeBatches ==
    /\ sim.calls > 0 =>
            /\ last.op = "run_calc"
            /\ Position(node_list, last.node) # 0
            /\ last.args = <<sim.recursive>>
    /\ (sim.pc = "returned" /\ Len(node_list) > 0) =>
            /\ sim.min_hops = 0 => sim.calls = sim.min_iterations
            /\ (sim.min_hops > 0 /\ sim.calls < MaxCalls) =>
                    \E k \in 1..MaxCalls : sim.calls = k * sim.min_iterations

\* simulate(2, 0, recursive) returned after its two calls while a stored node
\* has not received any message
C12_Witness ==
    /\ sim.pc = "returned"
    /\ sim.min_hops = 0
    /\ sim.min_iterations = 2
    /\ sim.calls = 2
    /\ \E i \in 1..Len(node_list) : node_list[i].msg_count = 0

\* C13: simulate on a topology with an empty node list does not abort while
\* sampling a node.
C13_EmptyIsNoOp ==
    Len(node_list) = 0 => sim.pc # "panicked"

C18_IsolatedNeverReturns ==
    [][\A i \in 1..Len(node_list) :
          Isolated(node_list[i].id) =>
              /\ node_list'[i].msg_count = node_list[i].msg_count
              /\ ~(sim'.pc = "returned" /\ sim'.min_hops > 0)]_vars

\* C17: on a connected topology of two or more nodes, a call of simulate with
\* min_iterations >= 1 and min_hops > 0 whose selections are fair returns,
\* and then every msg_count exceeds min_hops.
C17_SimulateTerminates ==
    (/\ sim.pc = "loop"
     /\ sim.min_iterations >= 1
     /\ sim.min_hops > 0
     /\ Len(node_list) >= 2
     /\ Connected(node_list, link_list))
        ~> (/\ sim.pc = "returned"
            /\ \A i \in 1..Len(node_list) :
                   node_list[i].msg_count > sim.min_hops)

\* simulate(2, 1, recursive) returned on a connected topology of three nodes
\* after more than one batch
C17_Witness ==
    /\ sim.pc = "returned"
    /\ sim.min_iterations = 2
    /\ sim.min_hops = 1
    /\ sim.calls >= 4
    /\ Len(node_list) = 3
    /\ Connected(node_list, link_list)

(* ----------------------- claims on convergence ------------------------ *)

\* C14: on a connected topology of two or more nodes, repeated run_calc
\* calls on fairly selected nodes, recursive or not, bring every node's
\* root_id to the lowest node id, and from then on no root_id changes.
C14_RootConverges ==
    (phase = "run" /\ Len(node_list) >= 2 /\ Connected(node_list, link_list))
        ~> [](\A i \in 1..Len(node_list) :
                 node_list[i].root_id = MinId(node_list))

\* on a connected topology of three nodes every node holds the lowest id as
\* its root_id, one of them over another node as its next hop
C14_Witness ==
    /\ phase = "run"
    /\ Len(node_list) = 3
    /\ Connected(node_list, link_list)
    /\ \A i \in 1..Len(node_list) : node_list[i].root_id = MinId(node_list)
    /\ \E i \in 1..Len(node_list) :
          /\ node_list[i].next_hop # None
          /\ node_list[i].next_hop # Some(MinId(node_list))

\* C15: on a connected topology, repeated run_calc calls on fairly selected
\* nodes bring every node's root_cost to the lowest total link cost of a
\* path from the node to the node of the lowest id, where it stays.
C15_CostConverges ==
    (phase = "run" /\ Connected(node_list, link_list))
        ~> [](\A i \in 1..Len(node_list) :
                 Some(node_list[i].root_cost)
                     = PathCost(node_list, link_list)[node_list[i].id])

(* ------------------ claims on add_node and find_link ------------------ *)

\* C21: no two stored nodes share an id; add_node of an id that is stored
\* leaves the node list, with the stored node's belief and msg_count, as it
\* was, and add_node of a new id appends a new node.
C21_NoTwoNodesShareAnId ==
    [][/\ \A i \in 1..Len(node_list'), j \in 1..Len(node_list') :
             node_list'[i].id = node_list'[j].id => i = j
       /\ last'.op = "add_node" =>
             node_list' = IF Position(node_list, last'.node) # 0
                          THEN node_list
                          ELSE Append(node_list, NewNode(last'.node))]_vars

\* add_node was called with the id of a stored node that has received a
\* message and holds another node as its root
C21_Witness ==
    /\ last.op = "add_node"
    /\ Position(node_list, last.node) # 0
    /\ NodeOf(last.node).msg_count > 0
    /\ NodeOf(last.node).root_id # last.node
    /\ Len(node_list) >= 2

\* C22: for all ids a and b, find_link(a, b) and find_link(b, a) return the
\* same: the first stored link that joins a and b in either orientation, or
\* none when no stored link joins them.
C22_FindLinkSymmetric ==
    last.op = "find_link" =>
        /\ last.ret = find_link(link_list, last.args[2], last.args[1])
        /\ IF Joining(link_list, last.args[1], last.args[2]) # {}
           THEN /\ last.ret # None
                /\ last.ret[1] = link_list[CHOOSE k \in
                       Joining(link_list, last.args[1], last.args[2]) :
                         \A j \in Joining(link_list, last.args[1],
                                           last.args[2]) : k <= j]
           ELSE last.ret = None

\* find_link(4, 2) returned a link stored as (2, 4) from a list that also
\* holds the pair in the other orientation
C22_Witness ==
    /\ last.op = "find_link"
    /\ last.args = <<4, 2>>
    /\ last.ret # None
    /\ last.ret[1].members = <<2, 4>>
    /\ \E k \in 1..Len(link_list) : link_list[k].members = <<4, 2>>

(* ============================ graph.rs ================================ *)

\* A Graph of graph.rs is held in node_list and link_list, its fields of
\* these names; root_id and sim stay as they start. phase "panicked" is the
\* program after a panic.

\* names a caller gives to nodes
Names == {"A", "B", "C", "D"}
\* ids a caller asks get_node for: negative, stored, past the end
GraphIds == -1..MaxNodes

\* graph::Node::new(name)
NewGraphNode(name) == [id |-> -1, name |-> name, is_discovered |-> FALSE]

\* graph_add_node comparing ids in place of names
graph_add_node_by_id(nl, node) ==
    IF \E i \in 1..Len(nl) : nl[i].id = node.id
    THEN [nodes |-> nl,
          ret |-> nl[CHOOSE i \in 1..Len(nl) :
                        nl[i].id = node.id
                        /\ \A j \in 1..(i - 1) : nl[j].id # node.id].id]
    ELSE [nodes |-> Append(nl, [node EXCEPT !.id = Len(nl)]), ret |-> Len(nl)]

\* Graph::add_node: the node list afterwards and the id returned
graph_add_node(nl, node) ==
    IF \E i \in 1..Len(nl) : nl[i].name = node.name
    THEN [nodes |-> nl,
          ret |-> nl[CHOOSE i \in 1..Len(nl) :
                        nl[i].name = node.name
                        /\ \A j \in 1..(i - 1) : nl[j].name # node.name].id]
    ELSE [nodes |-> Append(nl, [node EXCEPT !.id = Len(nl)]), ret |-> Len(nl)]

\* Graph::get_node: try_into().unwrap() panics on a negative id; get_mut
\* gives the node at the index, or None past the end
graph_get_node(nl, node_id) ==
    IF node_id < 0 THEN [panic |-> TRUE, ret |-> None]
    ELSE IF node_id < Len(nl) THEN [panic |-> FALSE, ret |-> Some(nl[node_id + 1])]
    ELSE [panic |-> FALSE, ret |-> None]

\* graph.add_node(Node::new(name))
GraphAddNode(name) ==
    /\ phase = "build"
    /\ Len(node_list) < MaxNodes
    /\ \E r \in {graph_add_node(node_list, NewGraphNode(name))} :
          /\ node_list' = r.nodes
          /\ last' = [op |-> "graph_add_node", node |-> 0, args |-> <<name>>,
                      ret |-> r.ret, before |-> None]
    /\ UNCHANGED <<link_list, root_id, phase, sim>>

\* graph.get_node(node_id)
GraphGetNode(node_id) ==
    /\ phase = "build"
    /\ \E r \in {graph_get_node(node_list, node_id)} :
          /\ last' = [op |-> "graph_get_node", node |-> node_id, args |-> <<>>,
                      ret |-> r.ret, before |-> None]
          /\ phase' = IF r.panic THEN "panicked" ELSE phase
    /\ UNCHANGED <<node_list, link_list, root_id, sim>>

NextGraph ==
    \/ \E name \in Names : GraphAddNode(name)
    \/ \E node_id \in GraphIds : GraphGetNode(node_id)

\* Graph::new(), then any calls
SpecGraph == Init /\ [][NextGraph]_vars

(* -------------------------- claims on graph.rs ------------------------ *)

\* C23: Graph::get_node(id) does not abort the program; it returns None for
\* every id that no stored node has, negative ids and ids from the node count
\* on included, and the node with that id for a stored id.
C23_GetNodeNeverAborts ==
    last.op = "graph_get_node" =>
        /\ phase # "panicked"
        /\ IF \E i \in 1..Len(node_list) : node_list[i].id = last.node
           THEN last.ret # None /\ last.ret[1].id = last.node
           ELSE last.ret = None

\* C24: the node stored at position i has id i and no two stored nodes share
\* a name; add_node of a stored name returns the stored node's id and leaves
\* the node list as it was, add_node of a new name appends the node and
\* returns its id, and get_node of the returned id is a node of that name.
C24_IdIsPositionNamesUnique ==
    [][/\ \A i \in 1..Len(node_list') : node_list'[i].id = i - 1
       /\ \A i \in 1..Len(node_list'), j \in 1..Len(node_list') :
             node_list'[i].name = node_list'[j].name => i = j
       /\ last'.op = "graph_add_node" =>
             /\ IF \E i \in 1..Len(node_list) :
                      node_list[i].name = last'.args[1]
                THEN /\ node_list' = node_list
                     /\ \E i \in 1..Len(node_list) :
                           /\ node_list[i].name = last'.args[1]
                           /\ node_list[i].id = last'.ret
                ELSE /\ node_list' =
                          Append(node_list,
                                 [id |-> Len(node_list), name |-> last'.args[1],
                                  is_discovered |-> FALSE])
                     /\ last'.ret = Len(node_list)
             /\ ~graph_get_node(node_list', last'.ret).panic
             /\ graph_get_node(node_list', last'.ret).ret # None
             /\ graph_get_node(node_list', last'.ret).ret[1].name
                    = last'.args[1]]_vars

\* add_node was called with the name of the first of two stored nodes and
\* returned its id
C24_Witness ==
    /\ last.op = "graph_add_node"
    /\ Len(node_list) = 2
    /\ node_list[1].name = last.args[1]
    /\ last.ret = 0

(* ================= bfs.rs, dfs.rs, bfstest.rs: searches ================ *)

\* The tree a search is called on is held in node_list and link_list; the
\* search takes it by value, so its is_discovered marks stay inside the call.
\* The outcome of a call is a record: kind "some" with the links and cost of
\* the SearchResult, kind "none", or kind "panic".

\* the trees searched have up to this many nodes and links
MaxSearchNodes == 4
MaxSearchLinks == 3

\* the links of the trees searched: links between the first nodes, a
\* self-link, and a link to the id -1, which no node has
SearchLinks == {<<0, 1, 1>>, <<2, 0, 1>>, <<1, 3, 2>>, <<1, 2, 1>>,
                <<2, 3, 5>>, <<1, 1, 5>>, <<0, -1, 1>>}
\* the start and target ids of a search
SearchIds == -1..MaxSearchNodes

\* the node list after n calls add_node(Node::new(_)): ids 0 .. n - 1
SearchNodes(n) == [i \in 1..n |-> [id |-> i - 1, name |-> i, is_discovered |-> FALSE]]

RECURSIVE SearchLinkLists(_)
\* the link lists of up to n different links of SearchLinks
SearchLinkLists(n) ==
    IF n = 0 THEN {<<>>}
    ELSE SearchLinkLists(n - 1) \cup
         UNION {{Append(ll, NewLink(l[1], l[2], l[3])) :
                    l \in {y \in SearchLinks :
                             find_link(ll, y[1], y[2]) = None}} :
                ll \in {x \in SearchLinkLists(n - 1) : Len(x) = n - 1}}

SomeResult(links, cost) == [kind |-> "some", links |-> links, cost |-> cost]
NoneResult == [kind |-> "none", links |-> <<>>, cost |-> 0]
PanicResult == [kind |-> "panic", links |-> <<>>, cost |-> 0]

RECURSIVE SumCost(_)
\* the sum of the costs of the links
SumCost(links) ==
    IF links = <<>> THEN 0 ELSE Head(links).cost + SumCost(Tail(links))

\* the tree's nodes with the node at index i marked as discovered
Discover(nl, i) == [nl EXCEPT ![i].is_discovered = TRUE]

(* ------------------------------- bfs.rs -------------------------------- *)

\* bfs.rs Tree::get_node: try_into().unwrap() panics on a negative id
bfs_get_node(nl, node_id) ==
    IF node_id < 0 THEN [panic |-> TRUE, index |-> 0]
    ELSE IF node_id < Len(nl) THEN [panic |-> FALSE, index |-> node_id + 1]
    ELSE [panic |-> FALSE, index |-> 0]

\* the for loop over the links of the current node, from link k on: the
\* nodes and the queue afterwards, or a panic
RECURSIVE BfsLinks(_, _, _, _, _)
BfsLinks(nl, ll, k, cur, queue) ==
    IF k > Len(ll) THEN [panic |-> FALSE, nodes |-> nl, queue |-> queue]
    ELSE
        LET link == ll[k]
            found_node == IF link.members[1] = cur.node
                          THEN link.members[2] ELSE link.members[1]
            got == bfs_get_node(nl, found_node)
        IN  IF ~Incident(link, cur.node) \/ link.members[1] = link.members[2]
            THEN BfsLinks(nl, ll, k + 1, cur, queue)
            ELSE IF got.panic
            THEN [panic |-> TRUE, nodes |-> nl, queue |-> queue]
            ELSE IF got.index = 0 \/ nl[got.index].is_discovered
            THEN BfsLinks(nl, ll, k + 1, cur, queue)
            ELSE BfsLinks(Discover(nl, got.index), ll, k + 1, cur,
                          Append(queue, [node |-> found_node,
                                         depth |-> cur.depth + 1,
                                         links |-> Append(cur.links, link)]))

\* the while loop over the queue
RECURSIVE BfsLoop(_, _, _, _)
BfsLoop(nl, ll, queue, search_node_id) ==
    IF queue = <<>> THEN NoneResult
    ELSE IF Head(queue).node = search_node_id
    THEN SomeResult(Head(queue).links, SumCost(Head(queue).links))
    ELSE LET r == BfsLinks(nl, ll, 1, Head(queue), Tail(queue))
         IN  IF r.panic THEN PanicResult
             ELSE BfsLoop(r.nodes, ll, r.queue, search_node_id)

\* bfs_find_path_to_element beginning with the self-link of node 0
bfs_find_path_to_element_from_0(nl, ll, start_node_id, search_node_id) ==
    IF start_node_id = search_node_id
    THEN SomeResult(<<NewLink(start_node_id, search_node_id, 0)>>, 0)
    ELSE LET got == bfs_get_node(nl, start_node_id)
         IN  IF got.panic THEN PanicResult
             ELSE IF got.index = 0 THEN NoneResult
             ELSE BfsLoop(Discover(nl, got.index), ll,
                          <<[node |-> start_node_id, depth |-> 1,
                             links |-> <<NewLink(0, 0, 0)>>]>>,
                          search_node_id)

\* bfs.rs find_path_to_element
bfs_find_path_to_element(nl, ll, start_node_id, search_node_id) ==
    IF start_node_id = search_node_id
    THEN SomeResult(<<NewLink(start_node_id, search_node_id, 0)>>, 0)
    ELSE LET got == bfs_get_node(nl, start_node_id)
         IN  IF got.panic THEN PanicResult
             ELSE IF got.index = 0 THEN NoneResult
             ELSE BfsLoop(Discover(nl, got.index), ll,
                          <<[node |-> start_node_id, depth |-> 1,
                             links |-> <<NewLink(start_node_id,
                                                 start_node_id, 0)>>]>>,
                          search_node_id)

(* ------------------------------- dfs.rs -------------------------------- *)

\* dfs.rs Tree::get_node: try_into().unwrap() panics on a negative id
dfs_get_node(nl, node_id) ==
    IF node_id < 0 THEN [panic |-> TRUE, index |-> 0]
    ELSE IF node_id < Len(nl) THEN [panic |-> FALSE, index |-> node_id + 1]
    ELSE [panic |-> FALSE, index |-> 0]

\* the for loop of search_node_recursive over the links of the start node,
\* from link k on: the nodes and the stack afterwards, or a panic
RECURSIVE DfsLinks(_, _, _, _, _)
DfsLinks(nl, ll, k, start_node_id, stack) ==
    IF k > Len(ll) THEN [panic |-> FALSE, nodes |-> nl, stack |-> stack]
    ELSE
        LET link == ll[k]
            other_node == IF link.members[1] = start_node_id
                          THEN link.members[2] ELSE link.members[1]
            got == dfs_get_node(nl, other_node)
        IN  IF ~Incident(link, start_node_id)
            THEN DfsLinks(nl, ll, k + 1, start_node_id, stack)
            ELSE IF got.panic
            THEN [panic |-> TRUE, nodes |-> nl, stack |-> stack]
            ELSE IF got.index = 0 \/ nl[got.index].is_discovered
            THEN DfsLinks(nl, ll, k + 1, start_node_id, stack)
            ELSE DfsLinks(Discover(nl, got.index), ll, k + 1, start_node_id,
                          Append(stack, [link |-> link, node |-> other_node]))

RECURSIVE search_node_recursive(_, _, _, _, _)
RECURSIVE DfsStack(_, _, _, _, _)

\* dfs.rs search_node_recursive
search_node_recursive(nl, ll, start_node_id, search_node_id, link_chain) ==
    IF start_node_id = search_node_id THEN SomeResult(link_chain, 0)
    ELSE LET r == DfsLinks(nl, ll, 1, start_node_id, <<>>)
         IN  IF r.panic THEN PanicResult
             ELSE DfsStack(r.nodes, ll, r.stack, search_node_id, link_chain)

\* the while loop of search_node_recursive over its stack: each element is
\* searched from with a clone of the tree
DfsStack(nl, ll, stack, search_node_id, link_chain) ==
    IF stack = <<>> THEN NoneResult
    ELSE LET stack_element == stack[Len(stack)]
             result == search_node_recursive(nl, ll, stack_element.node,
                           search_node_id,
                           Append(link_chain, stack_element.link))
         IN  IF result.kind # "none" THEN result
             ELSE DfsStack(nl, ll, SubSeq(stack, 1, Len(stack) - 1),
                           search_node_id, link_chain)

\* dfs.rs search_node
search_node(nl, ll, start_node_id, search_node_id) ==
    IF start_node_id = search_node_id
    THEN SomeResult(<<NewLink(start_node_id, search_node_id, 0)>>, 0)
    ELSE LET result == search_node_recursive(nl, ll, start_node_id,
                           search_node_id, <<NewLink(0, 0, 0)>>)
         IN  IF result.kind = "some"
             THEN SomeResult(result.links, SumCost(result.links))
             ELSE result

(* ----------------------------- bfstest.rs ------------------------------ *)

\* the for loop over the links of the current node, from link k on: the
\* nodes and the queue afterwards
RECURSIVE BfstestLinks(_, _, _, _, _)
BfstestLinks(nl, ll, k, cur, queue) ==
    IF k > Len(ll) THEN [nodes |-> nl, queue |-> queue]
    ELSE
        LET link == ll[k]
            found_node == IF link.members[1] = cur.node
                          THEN link.members[2] ELSE link.members[1]
            index == Position(nl, found_node)
        IN  IF \/ ~Incident(link, cur.node)
               \/ link.members[1] = link.members[2]
               \/ index = 0
               \/ nl[index].is_discovered
            THEN BfstestLinks(nl, ll, k + 1, cur, queue)
            ELSE BfstestLinks(Discover(nl, index), ll, k + 1, cur,
                              Append(queue, [node |-> found_node,
                                             depth |-> cur.depth + 1,
                                             link |-> link]))

\* the while loop over the queue; links is the SearchResult being built
RECURSIVE BfstestLoop(_, _, _, _, _, _)
BfstestLoop(nl, ll, queue, search_node_id, links, current_depth) ==
    IF queue = <<>> THEN NoneResult
    ELSE
        LET cur == Head(queue)
            sideways == links.links # <<>> /\ current_depth = cur.depth
            kept == IF sideways
                    THEN [links |-> SubSeq(links.links, 1, Len(links.links) - 1),
                          cost |-> links.cost
                                   - links.links[Len(links.links)].cost]
                    ELSE links
            pushed == [links |-> Append(kept.links, cur.link),
                       cost |-> kept.cost + cur.link.cost]
            r == BfstestLinks(nl, ll, 1, cur, Tail(queue))
        IN  IF cur.node = search_node_id
            THEN SomeResult(pushed.links, pushed.cost)
            ELSE BfstestLoop(r.nodes, ll, r.queue, search_node_id, pushed,
                             IF sideways THEN current_depth
                             ELSE current_depth + 1)

\* bfstest.rs find_path_to_element
bfstest_find_path_to_element(nl, ll, start_node_id, search_node_id) ==
    BfstestLoop(nl, ll,
                <<[node |-> start_node_id, depth |-> 1,
                   link |-> NewLink(start_node_id, start_node_id, 0)]>>,
                search_node_id,
                IF start_node_id = search_node_id
                THEN [links |-> <<NewLink(start_node_id, search_node_id, 0)>>,
                      cost |-> 0]
                ELSE [links |-> <<>>, cost |-> 0],
                1)

(* ------------------------- the searches as calls ----------------------- *)

\* a tree built by add_node and add_link calls, before any search
InitSearch ==
    /\ \E n \in 0..MaxSearchNodes : node_list = SearchNodes(n)
    /\ link_list \in SearchLinkLists(MaxSearchLinks)
    /\ root_id = None
    /\ phase = "build"
    /\ last = NoCall
    /\ sim = NoSim

\* bfs::find_path_to_element(tree, start_node_id, search_node_id); ret is
\* its outcome
BfsFind(start_node_id, search_node_id) ==
    /\ last.op = "none"
    /\ last' = [op |-> "bfs", node |-> 0,
                args |-> <<start_node_id, search_node_id>>,
                ret |-> bfs_find_path_to_element(node_list, link_list,
                            start_node_id, search_node_id),
                before |-> None]
    /\ UNCHANGED <<node_list, link_list, root_id, phase, sim>>

\* dfs::search_node(tree, start_node_id, search_node_id)
DfsSearch(start_node_id, search_node_id) ==
    /\ last.op = "none"
    /\ last' = [op |-> "dfs", node |-> 0,
                args |-> <<start_node_id, search_node_id>>,
                ret |-> search_node(node_list, link_list,
                            start_node_id, search_node_id),
                before |-> None]
    /\ UNCHANGED <<node_list, link_list, root_id, phase, sim>>

\* bfstest::find_path_to_element(tree, start_node_id, search_node_id)
BfstestFind(start_node_id, search_node_id) ==
    /\ last.op = "none"
    /\ last' = [op |-> "bfstest", node |-> 0,
                args |-> <<start_node_id, search_node_id>>,
                ret |-> bfstest_find_path_to_element(node_list, link_list,
                            start_node_id, search_node_id),
                before |-> None]
    /\ UNCHANGED <<node_list, link_list, root_id, phase, sim>>

NextSearch ==
    \/ \E a \in SearchIds, b \in SearchIds : BfsFind(a, b)
    \/ \E a \in SearchIds, b \in SearchIds : DfsSearch(a, b)
    \/ \E a \in SearchIds, b \in SearchIds : BfstestFind(a, b)

SpecSearch == InitSearch /\ [][NextSearch]_vars

(* ------------------------ claims on the searches ----------------------- *)

\* the node a walk over the links in turn ends at when it begins at cur, or
\* None when a link does not touch the node reached so far
RECURSIVE WalkEnd(_, _)
WalkEnd(links, cur) ==
    IF links = <<>> THEN Some(cur)
    ELSE IF Incident(Head(links), cur)
    THEN WalkEnd(Tail(links), Neighbour(Head(links), cur))
    ELSE None
\* the links are a contiguous path of stored links from a to b
IsStoredPath(links, a, b) ==
    /\ \A k \in 1..Len(links) :
          \E j \in 1..Len(link_list) : link_list[j] = links[k]
    /\ WalkEnd(links, a) = Some(b)
\* b is reached from the stored node a over links between stored nodes
Reachable(a, b) ==
    /\ Position(node_list, a) # 0
    /\ b \in Reach(node_list, link_list, {a}, Len(node_list))
\* the start and the target of the latest search, and its outcome
start_node_id == last.args[1]
search_node_id == last.args[2]
result == last.ret

\* C25: when bfs.rs find_path_to_element with start # target returns a
\* result, its first link is the zero-cost self-link (start, start), the
\* links after it are a contiguous path of stored links from start to
\* target, and its cost is the sum of the costs of its links.
C25_BfsResultIsPath ==
    (last.op = "bfs" /\ start_node_id # search_node_id /\ result.kind = "some")
        => /\ result.links # <<>>
           /\ Head(result.links) = NewLink(start_node_id, start_node_id, 0)
           /\ IsStoredPath(Tail(result.links), start_node_id, search_node_id)
           /\ result.cost = SumCost(result.links)

\* bfs.rs find_path_to_element returned a path of two links or more from a
\* start node other than node 0
C25_Witness ==
    /\ last.op = "bfs"
    /\ start_node_id # 0
    /\ start_node_id # search_node_id
    /\ result.kind = "some"
    /\ Len(result.links) >= 3

\* C26: bfs.rs find_path_to_element returns a result exactly when start =
\* target or the start is a stored node from which the target is reached
\* over links between stored nodes, and returns None otherwise.
C26_BfsResultIffReachable ==
    last.op = "bfs" =>
        IF start_node_id = search_node_id
           \/ Reachable(start_node_id, search_node_id)
        THEN result.kind = "some"
        ELSE result.kind = "none"

\* C27: dfs.rs search_node with start # target and the target reachable
\* returns a result whose first link is the zero-cost self-link (start,
\* start), followed by a contiguous path of stored links from start to
\* target, with cost the sum of the costs of its links, for every start id.
C27_DfsResultIsPath ==
    (/\ last.op = "dfs"
     /\ start_node_id # search_node_id
     /\ Reachable(start_node_id, search_node_id))
        => /\ result.kind = "some"
           /\ result.links # <<>>
           /\ Head(result.links) = NewLink(start_node_id, start_node_id, 0)
           /\ IsStoredPath(Tail(result.links), start_node_id, search_node_id)
           /\ result.cost = SumCost(result.links)

\* C28: when bfstest.rs find_path_to_element with start # target returns a
\* result, its links are exactly a contiguous path of stored links from
\* start to target in path order, and its cost is the sum of their costs.
C28_BfstestResultIsPath ==
    (/\ last.op = "bfstest"
     /\ start_node_id # search_node_id
     /\ result.kind = "some")
        => /\ result.links # <<>>
           /\ IsStoredPath(result.links, start_node_id, search_node_id)
           /\ result.cost = SumCost(result.links)

(* ============ spanningtree.rs: the order of calls in run_calc ========== *)

\* What one call of run_calc does is written down as a sequence of events,
\* in the order in which they happen: a "call" event when run_calc is
\* entered for a node, a "suggest" event for every receive_suggestion it
\* calls (node is the sender, to the receiver, accept what was returned).
\* depth is the nesting of the run_calc that the event belongs to: 0 for the
\* caller's call, 1 for the calls its second loop makes, and so on.

\* the topologies have up to this many nodes and links
MaxOrderNodes == 4
MaxOrderLinks == 3

\* node ids and links of those topologies
OrderIds == {2, 3, 4, 5}
OrderLinks == {<<2, 3, 1>>, <<2, 4, 8>>, <<3, 4, 1>>, <<3, 5, 2>>,
               <<4, 4, 1>>}

CallEvent(node_id, depth) ==
    [kind |-> "call", node |-> node_id, to |-> node_id, accept |-> FALSE,
     depth |-> depth]
SuggestEvent(node_id, other_id, accept, depth) ==
    [kind |-> "suggest", node |-> node_id, to |-> other_id,
     accept |-> accept, depth |-> depth]

\* the first loop of run_calc from link k on, with its events appended
RECURSIVE SweepEvents(_, _, _, _, _, _, _, _, _, _)
SweepEvents(nl, ll, k, node_id, snap_id, snap_cost, recursive, rvec, depth, events) ==
    IF k > Len(ll)
    THEN [nodes |-> nl, recursive_vec |-> rvec, events |-> events]
    ELSE
        LET link == ll[k]
            index == Position(nl, OtherEnd(link, node_id))
            r == receive_suggestion(nl[index], snap_id, node_id,
                                    snap_cost + link.cost)
        IN  IF index = 0
            THEN SweepEvents(nl, ll, k + 1, node_id, snap_id, snap_cost,
                             recursive, rvec, depth, events)
            ELSE SweepEvents([nl EXCEPT ![index] = r.node], ll, k + 1,
                             node_id, snap_id, snap_cost, recursive,
                             IF r.accept /\ recursive
                             THEN Append(rvec, r.node.id) ELSE rvec,
                             depth,
                             Append(events,
                                    SuggestEvent(node_id, r.node.id,
                                                 r.accept, depth)))

RECURSIVE RunCalcEvents(_, _, _, _, _)
RECURSIVE CascadeEvents(_, _, _, _, _, _)

\* CascadeEvents leaving the second loop of run_calc out
CascadeEvents_none(nl, ll, rvec, recursive, depth, events) ==
    [nodes |-> nl, events |-> events]

\* CascadeEvents going through recursive_vec from its last id to its first
CascadeEvents_last_first(nl, ll, rvec, recursive, depth, events) ==
    IF rvec = <<>> THEN [nodes |-> nl, events |-> events]
    ELSE LET r == RunCalcEvents(nl, ll, rvec[Len(rvec)], recursive, depth + 1)
         IN  CascadeEvents(r.nodes, ll, SubSeq(rvec, 1, Len(rvec) - 1),
                           recursive, depth, events \o r.events)

\* the second loop of run_calc, with the events of its calls appended
CascadeEvents(nl, ll, rvec, recursive, depth, events) ==
    IF rvec = <<>> THEN [nodes |-> nl, events |-> events]
    ELSE LET r == RunCalcEvents(nl, ll, Head(rvec), recursive, depth + 1)
         IN  CascadeEvents(r.nodes, ll, Tail(rvec), recursive, depth,
                           events \o r.events)

\* Tree::run_calc entered at the given depth: the nodes afterwards and the
\* events of the call
RunCalcEvents(nl, ll, node_id, recursive, depth) ==
    LET at == Position(nl, node_id)
        swept == SweepEvents(nl, ll, 1, node_id, nl[at].root_id,
                             nl[at].root_cost, recursive, <<>>, depth,
                             <<CallEvent(node_id, depth)>>)
    IN  IF at = 0
        THEN [nodes |-> nl, events |-> <<CallEvent(node_id, depth)>>]
        ELSE CascadeEvents(swept.nodes, ll, swept.recursive_vec, recursive,
                           depth, swept.events)

RECURSIVE OrderNodeLists(_)
\* the node lists that up to n calls of add_node with different ids build
OrderNodeLists(n) ==
    IF n = 0 THEN {<<>>}
    ELSE OrderNodeLists(n - 1) \cup
         UNION {{Append(nl, NewNode(id)) :
                    id \in {y \in OrderIds : Position(nl, y) = 0}} :
                nl \in {x \in OrderNodeLists(n - 1) : Len(x) = n - 1}}

RECURSIVE OrderLinkLists(_)
\* the link lists that up to n calls of add_link that push build
OrderLinkLists(n) ==
    IF n = 0 THEN {<<>>}
    ELSE OrderLinkLists(n - 1) \cup
         UNION {{Append(ll, NewLink(l[1], l[2], l[3])) :
                    l \in {y \in OrderLinks :
                             find_link(ll, y[1], y[2]) = None}} :
                ll \in {x \in OrderLinkLists(n - 1) : Len(x) = n - 1}}

\* a tree built by add_node and add_link calls, before any run_calc
InitOrder ==
    /\ node_list \in OrderNodeLists(MaxOrderNodes)
    /\ link_list \in OrderLinkLists(MaxOrderLinks)
    /\ root_id = IF node_list = <<>> THEN None ELSE Some(MinId(node_list))
    /\ phase = "build"
    /\ last = NoCall
    /\ sim = NoSim

\* tree.run_calc(node_list[randi].id, recursive); ret holds the events of
\* the call; a msg_count is held at MaxMsg
RunCalcOrder(randi, recursive) ==
    /\ randi \in 1..Len(node_list)
    /\ LET r == RunCalcEvents(node_list, link_list, node_list[randi].id,
                              recursive, 0)
       IN  /\ node_list' = Clamp(r.nodes)
           /\ last' = [op |-> "run_calc_order", node |-> node_list[randi].id,
                       args |-> <<recursive>>, ret |-> r.events,
                       before |-> Some(node_list[randi])]
    /\ phase' = "run"
    /\ UNCHANGED <<link_list, root_id, sim>>

NextOrder ==
    \E randi \in 1..MaxOrderNodes, recursive \in BOOLEAN :
        RunCalcOrder(randi, recursive)

SpecOrder == InitOrder /\ [][NextOrder]_vars

\* the events of the latest run_calc
Events == IF last.op = "run_calc_order" THEN last.ret ELSE <<>>
\* the index after the last event that belongs to the call entered at event c
EndOfCall(E, c) ==
    LET Later(j) == E[j].kind = "call" /\ E[j].depth <= E[c].depth
    IN  IF \E j \in (c + 1)..Len(E) : Later(j)
        THEN CHOOSE j \in (c + 1)..Len(E) :
                Later(j) /\ \A i \in (c + 1)..(j - 1) : ~Later(i)
        ELSE Len(E) + 1
RECURSIVE EventNodes(_)
\* the receivers of the events
EventNodes(E) ==
    IF E = <<>> THEN <<>> ELSE <<Head(E).to>> \o EventNodes(Tail(E))
\* the neighbours that accepted in the sweep of the call entered at event c
Acceptors(E, c) ==
    LET Accepted(e) == e.kind = "suggest" /\ e.depth = E[c].depth /\ e.accept
    IN  EventNodes(SelectSeq(SubSeq(E, c + 1, EndOfCall(E, c) - 1), Accepted))
\* the nodes that the second loop of the call entered at event c calls
\* run_calc for
Propagated(E, c) ==
    LET Called(e) == e.kind = "call" /\ e.depth = E[c].depth + 1
    IN  EventNodes(SelectSeq(SubSeq(E, c + 1, EndOfCall(E, c) - 1), Called))

\* C29: in recursive mode no run_calc of a neighbour happens between two
\* suggestions of one sweep (every suggestion directly follows the entry of
\* its run_calc or another suggestion of the same run_calc), and the calls
\* that follow the sweep are for exactly the neighbours that accepted in
\* it, in that order.
C29_CascadeAfterSweep ==
    (last.op = "run_calc_order" /\ last.args[1])
        => /\ Events[1] = CallEvent(last.node, 0)
           /\ \A i \in 2..Len(Events) :
                 Events[i].kind = "suggest"
                    => /\ Events[i - 1].depth = Events[i].depth
                       /\ Events[i - 1].node = Events[i].node
           /\ \A c \in 1..Len(Events) :
                 Events[c].kind = "call"
                    => Propagated(Events, c) = Acceptors(Events, c)

\* a recursive run_calc whose sweep made two suggestions that were both
\* accepted, and the second loop of one of the calls that followed called
\* run_calc too
C29_Witness ==
    /\ last.op = "run_calc_order"
    /\ last.args[1]
    /\ Len(Acceptors(Events, 1)) = 2
    /\ \E i \in 1..Len(Events) :
          Events[i].kind = "call" /\ Events[i].depth = 2

NextCall(E, c) ==
    IF \E j \in (c + 1)..Len(E) : E[j].kind = "call"
    THEN CHOOSE j \in (c + 1)..Len(E) :
            /\ E[j].kind = "call"
            /\ \A i \in (c + 1)..(j - 1) : E[i].kind # "call"
    ELSE 0

MaxStepNodes == 3
MaxStepLinks == 3
\* no run_calc is entered at a nesting deeper than this
MaxDepth == 8

\* node ids of those topologies, in the order in which they are added
StepIds == <<-1, 2, 3, 4>>
\* their links: a cycle 2 - 3 - 4 with a link of cost 0, a self-link of
\* cost 0 and a link of the negative id
StepLinks == {<<2, 3, 0>>, <<3, 4, 1>>, <<2, 4, 8>>, <<3, 3, 0>>,
              <<-1, 2, 5>>}

RECURSIVE StepNodeLists(_)
\* the node lists that add_node calls with the first k ids of StepIds, or
\* some of them, build
StepNodeLists(k) ==
    IF k = 0 THEN {<<>>}
    ELSE StepNodeLists(k - 1) \cup
         {Append(nl, NewNode(StepIds[k])) : nl \in StepNodeLists(k - 1)}

RECURSIVE StepLinkLists(_)
\* the link lists that up to n calls of add_link that push build
StepLinkLists(n) ==
    IF n = 0 THEN {<<>>}
    ELSE StepLinkLists(n - 1) \cup
         UNION {{Append(ll, NewLink(l[1], l[2], l[3])) :
                    l \in {y \in StepLinks :
                             find_link(ll, y[1], y[2]) = None}} :
                ll \in {x \in StepLinkLists(n - 1) : Len(x) = n - 1}}

\* a tree built by add_node and add_link calls, before any run_calc
InitSteps ==
    /\ node_list \in {nl \in StepNodeLists(Len(StepIds)) :
                         Len(nl) <= MaxStepNodes}
    /\ link_list \in StepLinkLists(MaxStepLinks)
    /\ root_id = IF node_list = <<>> THEN None ELSE Some(MinId(node_list))
    /\ phase = "build"
    /\ last = NoCall
    /\ sim = NoSim

\* the frames of the run_calc in progress
Stack == IF last.op = "run_calc_steps" THEN last.stack ELSE <<>>
\* the first loop of run_calc(node_id, recursive) on the stored node node_id
SweepOf(nl, ll, node_id, recursive) ==
    Sweep(nl, ll, 1, node_id, nl[Position(nl, node_id)].root_id,
          nl[Position(nl, node_id)].root_cost, recursive, <<>>)

\* the caller calls tree.run_calc(node_list[randi].id, recursive): its
\* first loop runs
RunCalcEnter(randi, recursive) ==
    /\ Stack = <<>>
    /\ randi \in 1..Len(node_list)
    /\ \E swept \in {SweepOf(node_list, link_list, node_list[randi].id,
                              recursive)} :
          /\ node_list' = Clamp(swept.nodes)
          /\ last' = [op |-> "run_calc_steps", node |-> node_list[randi].id,
                      args |-> <<recursive>>, ret |-> FALSE,
                      before |-> Some(node_list[randi]),
                      stack |-> <<[node |-> node_list[randi].id,
                                   pending |-> swept.recursive_vec]>>]
    /\ phase' = "run"
    /\ UNCHANGED <<link_list, root_id, sim>>

\* the second loop of the innermost run_calc calls self.run_calc(id,
\* recursive) for the next id of its recursive_vec: the first loop of that
\* call runs
RunCalcRecurse ==
    /\ Stack # <<>>
    /\ Stack[Len(Stack)].pending # <<>>
    /\ Len(Stack) < MaxDepth
    /\ \E id \in {Head(Stack[Len(Stack)].pending)} :
       \E swept \in {SweepOf(node_list, link_list, id, last.args[1])} :
          /\ node_list' = Clamp(swept.nodes)
          /\ last' = [last EXCEPT !.stack =
                        Append([@ EXCEPT ![Len(@)].pending = Tail(@)],
                               [node |-> id,
                                pending |-> swept.recursive_vec])]
    /\ UNCHANGED <<link_list, root_id, phase, sim>>

\* the second loop of the innermost run_calc has ended: it returns true
RunCalcReturn ==
    /\ Stack # <<>>
    /\ Stack[Len(Stack)].pending = <<>>
    /\ last' = [last EXCEPT !.stack = SubSeq(@, 1, Len(@) - 1),
                            !.ret = TRUE]
    /\ UNCHANGED <<node_list, link_list, root_id, phase, sim>>

NextSteps ==
    \/ \E randi \in 1..MaxStepNodes, recursive \in BOOLEAN :
          RunCalcEnter(randi, recursive)
    \/ RunCalcRecurse
    \/ RunCalcReturn

\* a run_calc that was entered goes on running: nothing else runs
StepFairness == WF_vars(RunCalcRecurse) /\ WF_vars(RunCalcReturn)

SpecSteps == InitSteps /\ [][NextSteps]_vars /\ StepFairness

\* C31: every call run_calc(n, true) comes to its end, on topologies with
\* cycles, links of cost 0 and self-links too: once entered, it has
\* returned after finitely many sweeps, and no other call of the caller
\* begins before.
C31_RunCalcTerminates ==
    (Stack # <<>> /\ last.args[1]) ~> (Stack = <<>> /\ last.ret)

\* a recursive run_calc on a cycle with a link of cost 0 is three calls deep
C31_Witness ==
    /\ Len(Stack) >= 3
    /\ last.args[1]
    /\ \E k \in 1..Len(link_list) : link_list[k].cost = 0
    /\ Len(link_list) = 3
    /\ \A k \in 1..Len(link_list) :
          link_list[k].members[1] # link_list[k].members[2]
          /\ link_list[k].members[1] # -1

\* the pair (root_id, root_cost) of b is below that of a in lexicographic
\* order
PairBelow(b, a) ==
    \/ b.root_id < a.root_id
    \/ b.root_id = a.root_id /\ b.root_cost < a.root_cost

\* C32: in every step a node's root_id does not go up, its root_cost does
\* not go up while its root_id stays, and a belief triple that changes has
\* its pair (root_id, root_cost) strictly lowered in lexicographic order.
C32_BeliefOnlyImproves ==
    [][\A i \in 1..Len(node_list) :
          /\ node_list'[i].root_id <= node_list[i].root_id
          /\ node_list'[i].root_id = node_list[i].root_id
                => node_list'[i].root_cost <= node_list[i].root_cost
          /\ Belief(node_list'[i]) # Belief(node_list[i])
                => PairBelow(node_list'[i], node_list[i])]_vars

\* during a recursive run_calc on node 2, node 4, whose link to node 2 of
\* cost 8 is swept first, holds root 2 at cost 1 by way of node 3: it took
\* the root at one cost and the lower cost afterwards
C32_Witness ==
    /\ Stack # <<>>
    /\ last.node = 2
    /\ last.args[1]
    /\ link_list # <<>>
    /\ link_list[1] = NewLink(2, 4, 8)
    /\ Position(node_list, 4) # 0
    /\ Belief(NodeOf(4)) = <<2, 1, Some(3)>>

\* the links join all nodes, every node holds the lowest id as its root and
\* the lowest total link cost of a path to that node as its root_cost
Converged ==
    /\ Connected(node_list, link_list)
    /\ \A i \in 1..Len(node_list) :
          /\ node_list[i].root_id = MinId(node_list)
          /\ PathCost(node_list, link_list)[node_list[i].id]
                = Some(node_list[i].root_cost)

C34_TreeRootIsMinId ==
    root_id = IF node_list = <<>> THEN None ELSE Some(MinId(node_list))

\* simulate made calls of run_calc and returned on a tree whose lowest id
\* was not the first one added
C34_Witness ==
    /\ sim.pc = "returned"
    /\ sim.calls >= 2
    /\ Len(node_list) >= 2
    /\ node_list[1].id # MinId(node_list)
    /\ \E i \in 1..Len(node_list) : node_list[i].next_hop # None

\* C35: a node's next_hop, when it is some id, is the id of another stored
\* node to which a stored link joins it.
C35_NextHopIsNeighbour ==
    \A i \in 1..Len(node_list) :
        node_list[i].next_hop # None
            => /\ node_list[i].next_hop[1] # node_list[i].id
               /\ Position(node_list, node_list[i].next_hop[1]) # 0
               /\ find_link(link_list, node_list[i].id,
                            node_list[i].next_hop[1]) # None

\* C36: a node's root_id is the id of a stored node that links between
\* stored nodes connect it with.
C36_RootInOwnComponent ==
    \A i \in 1..Len(node_list) :
        node_list[i].root_id
            \in Reach(node_list, link_list, {node_list[i].id}, Len(node_list))

\* for each id of nl the lowest total link cost of a path to the node r
PathCostTo(nl, ll, r) ==
    Relax(ll, [v \in IdSet(nl) |-> IF v = r THEN Some(0) ELSE None], Len(nl))

\* C37: a node's root_cost is not below the lowest total link cost of a
\* path from the node to the node whose id is its root_id.
C37_CostNotBelowDistance ==
    \A i \in 1..Len(node_list) :
        LET d == PathCostTo(node_list, link_list,
                            node_list[i].root_id)[node_list[i].id]
        IN  d # None /\ node_list[i].root_cost >= d[1]

\* C38: the stored node of the lowest id holds the belief triple of a new
\* node, its own id as root at cost 0 with no next_hop, whatever run_calc
\* calls were made.
C38_MinNodeKeepsBelief ==
    node_list # <<>>
        => Belief(NodeOf(MinId(node_list)))
              = <<MinId(node_list), 0, None>>

\* the node of the lowest id, added after another node, has received two
\* suggestions or more, and a node took it as its root
C38_Witness ==
    /\ Len(node_list) >= 2
    /\ node_list[1].id # MinId(node_list)
    /\ NodeOf(MinId(node_list)).msg_count >= 2
    /\ \E i \in 1..Len(node_list) :
          /\ node_list[i].root_id = MinId(node_list)
          /\ node_list[i].next_hop # None

\* the stored node k would accept what node m suggests over a link of this
\* cost
WouldAccept(k, m, cost) ==
    receive_suggestion(k, m.root_id, m.id, m.root_cost + cost).accept

\* C39: when a run_calc(n, true) of the caller has returned, no stored
\* neighbour of a node that accepted a suggestion during the call would
\* accept what that node now suggests over their link.
C39_NoPendingUpdate ==
    (last.op = "run_calc_order" /\ last.args[1])
        => \A e \in 1..Len(Events) :
              (Events[e].kind = "suggest" /\ Events[e].accept)
                 => \A k \in 1..Len(link_list) :
                       LET m == Events[e].to
                           other == Neighbour(link_list[k], m)
                       IN  (Incident(link_list[k], m)
                            /\ Position(node_list, other) # 0)
                              => ~WouldAccept(NodeOf(other), NodeOf(m),
                                              link_list[k].cost)

\* a recursive run_calc during which one node accepted a suggestion twice,
\* the second time inside the cascade
C39_Witness ==
    /\ last.op = "run_calc_order"
    /\ last.args[1]
    /\ \E e \in 1..Len(Events), f \in 1..Len(Events) :
          /\ e < f
          /\ Events[e].kind = "suggest" /\ Events[e].accept
          /\ Events[f].kind = "suggest" /\ Events[f].accept
          /\ Events[e].to = Events[f].to
          /\ Events[f].depth >= 1

\* C40: from the moment run_calc(n, recursive) is entered until it has
\* returned, node n holds the belief triple it held before the call, in
\* both modes, with a self-link and on a cycle too.
C40_OriginKeepsBelief ==
    last.op = "run_calc_steps"
        => Belief(NodeOf(last.node)) = Belief(last.before[1])

\* a recursive run_calc on a node of a cycle of three links has returned,
\* and the node has received a suggestion during the call
C40_Witness ==
    /\ last.op = "run_calc_steps"
    /\ last.args[1]
    /\ last.ret
    /\ Stack = <<>>
    /\ Len(link_list) = 3
    /\ \A k \in 1..Len(link_list) :
          /\ link_list[k].members[1] # link_list[k].members[2]
          /\ link_list[k].members[1] # -1
    /\ last.before[1].msg_count = 0
    /\ NodeOf(last.node).msg_count >= 1
    /\ \E i \in 1..Len(node_list) : node_list[i].next_hop = Some(last.node)

====
